---- MODULE Spec2Model ----
(***************************************************************************)
(* proc_micro: attribute parsing helpers (src/src/attr.rs) and the error   *)
(* accumulator (src/src/error.rs).                                         *)
(*                                                                         *)
(* A syn::Error is a non-empty sequence of (span, message) pairs; an       *)
(* Option is a sequence of length 0 (None) or 1 (Some); a HashMap is a     *)
(* function whose DOMAIN is its key set; a HashSet is a set.  Messages are *)
(* strings built the way format! builds them.  A TLA+ string cannot hold a *)
(* backquote, so the backquote of the messages is written as Tick.         *)
(***************************************************************************)
EXTENDS Integers, Sequences, FiniteSets, TLC

VARIABLES
    pc,                 \* position of the caller
    parsed_attributes,  \* unique: the input sequence of WithSpan<T>
    unique_out,         \* unique: the returned OkMaybe
    unique_again,       \* unique: the OkMaybe of a second run on the same input
    exclusive,          \* check_exclusive: the exclusive discriminant
    collection,         \* check_exclusive: the input slice of WithSpan<T>
    exclusive_out,      \* check_exclusive: the returned OkMaybe
    namespace,          \* parse_attrs: the AttrNamespace
    attrs,              \* parse_attrs: the slice of syn::Attribute
    parse_out,          \* parse_attrs: the returned OkMaybe
    errors,             \* a caller's MaybeError
    pushed,             \* history: the calls made on errors, oldest first
    unwrapped,          \* history: the values push_unwrap returned, oldest first
    maybe_out,          \* the Option returned by errors.maybe()
    variants,           \* known_attribute: the variants of T, declaration order
    identity,           \* known_attribute: the syn::Ident
    known_out           \* known_attribute: the returned Result

vars == << pc, parsed_attributes, unique_out, unique_again, exclusive,
           collection, exclusive_out, namespace, attrs, parse_out, errors,
           pushed, unwrapped, maybe_out, variants, identity, known_out >>

----------------------------------------------------------------------------
(* Bounds *)

NumKinds == 3
MaxItems == 3
MaxSource == 6
MaxCalls == 3
MaxCombined == 2

----------------------------------------------------------------------------
(* Generic helpers *)

Tick == "'"

None == << >>

Some(x) == << x >>

OkMaybe(ok, maybe_err) == [ok |-> ok, maybe |-> maybe_err]

RECURSIVE Join(_, _)
Join(strs, sep) ==
    IF strs = << >> THEN ""
    ELSE IF Len(strs) = 1 THEN strs[1]
    ELSE strs[1] \o sep \o Join(Tail(strs), sep)

SeqsUpTo(S, n) == UNION { [1..k -> S] : k \in 0..n }

Range(s) == { s[i] : i \in DOMAIN s }

----------------------------------------------------------------------------
(* syn::Error as the repository uses it *)

Error_new(span, message) == << [span |-> span, message |-> message] >>

combine(error, e) == error \o e

into_iter(error) == [i \in 1..Len(error) |-> << error[i] >>]

----------------------------------------------------------------------------
(* MaybeError *)

MaybeError_new == << >>

push_back(self, error) == self \o into_iter(error)

\* push_front written with the queue's push_back
push_front_at_back(self, error) == self \o << error >>

push_front(self, error) == << error >> \o self

has_err(self) == self # << >>

RECURSIVE combine_all(_, _)
combine_all(error, rest) ==
    IF rest = << >> THEN error
    ELSE combine_all(combine(error, Head(rest)), Tail(rest))

maybe(self) ==
    IF self # << >> THEN Some(combine_all(Head(self), Tail(self)))
    ELSE None

RECURSIVE extend(_, _)
extend(self, iter) ==
    IF iter = << >> THEN self
    ELSE extend(push_back(self, Head(iter)), Tail(iter))

\* push_unwrap that hands over only the first sub-diagnostic
push_unwrap_first_only(ok_maybe, push_to) ==
    [ok |-> ok_maybe.ok,
     push_to |-> IF ok_maybe.maybe # None
                 THEN extend(push_to, << Head(into_iter(ok_maybe.maybe[1])) >>)
                 ELSE push_to]

push_unwrap(ok_maybe, push_to) ==
    [ok |-> ok_maybe.ok,
     push_to |-> IF ok_maybe.maybe # None
                 THEN extend(push_to, into_iter(ok_maybe.maybe[1]))
                 ELSE push_to]

to_result(ok_maybe) ==
    IF ok_maybe.maybe # None
    THEN [is_ok |-> FALSE, err |-> ok_maybe.maybe[1]]
    ELSE [is_ok |-> TRUE, ok |-> ok_maybe.ok]

----------------------------------------------------------------------------
(* The item type T, its discriminants and their Display *)

VariantNames == << "rename", "ignore", "skip", "alias", "default", "flatten" >>

KnownAttribute == SubSeq(VariantNames, 1, NumKinds)

Discriminants == 1..NumKinds

Display(T, key) == T[key]

discriminant(value) == value.kind

\* The payloads an item may carry (the two of the doc test of unique).
Payloads == { "Ruby version", "Specified rename twice, oops" }

Values == [kind : Discriminants, payload : Payloads]

WithSpan(value, span) == [value |-> value, span |-> span]

\* Sequences of spanned items as parsing yields them: item i sits at span i.
SpannedSeqs ==
    { [i \in 1..Len(vs) |-> WithSpan(vs[i], i)] : vs \in SeqsUpTo(Values, MaxItems) }

----------------------------------------------------------------------------
(* unique *)

HashMap_insert(map, key, value) ==
    [map |-> [k \in (DOMAIN map) \cup {key} |-> IF k = key THEN value ELSE map[k]],
     old |-> IF key \in DOMAIN map THEN Some(map[key]) ELSE None]

\* unique reporting when insert finds no earlier entry
unique_body_inverted(st, attribute) ==
    LET span == attribute.span
        key == discriminant(attribute.value)
        ins == HashMap_insert(st.seen, key, attribute)
    IN  IF ins.old = None
        THEN [seen |-> ins.map,
              errors |->
                 push_back(
                     push_back(st.errors,
                         Error_new(span,
                             "Duplicate attribute: " \o Tick
                                 \o Display(KnownAttribute, key) \o Tick)),
                     Error_new(span,
                         "previously " \o Tick \o Display(KnownAttribute, key)
                             \o Tick \o " defined here"))]
        ELSE [seen |-> ins.map, errors |-> st.errors]

unique_body(st, attribute) ==
    LET span == attribute.span
        key == discriminant(attribute.value)
        ins == HashMap_insert(st.seen, key, attribute)
    IN  IF ins.old # None
        THEN LET prior == ins.old[1].span
             IN [seen |-> ins.map,
                 errors |->
                    push_back(
                        push_back(st.errors,
                            Error_new(span,
                                "Duplicate attribute: " \o Tick
                                    \o Display(KnownAttribute, key) \o Tick)),
                        Error_new(prior,
                            "previously " \o Tick \o Display(KnownAttribute, key)
                                \o Tick \o " defined here"))]
        ELSE [seen |-> ins.map, errors |-> st.errors]

RECURSIVE unique_loop(_, _)
unique_loop(st, rest) ==
    IF rest = << >> THEN st
    ELSE unique_loop(unique_body(st, Head(rest)), Tail(rest))

unique(items) ==
    LET st == unique_loop([seen |-> << >>, errors |-> MaybeError_new], items)
    IN  OkMaybe(st.seen, maybe(st.errors))

----------------------------------------------------------------------------
(* Calls of unique on every bounded input sequence *)

Unset == "unset"

InitUnique ==
    /\ pc = "unique_ready"
    /\ parsed_attributes \in SpannedSeqs
    /\ unique_out = Unset
    /\ unique_again = Unset
    /\ exclusive = Unset
    /\ collection = Unset
    /\ exclusive_out = Unset
    /\ namespace = Unset
    /\ attrs = Unset
    /\ parse_out = Unset
    /\ errors = Unset
    /\ pushed = Unset
    /\ maybe_out = Unset
    /\ unwrapped = Unset
    /\ variants = Unset
    /\ identity = Unset
    /\ known_out = Unset

UniqueCall ==
    /\ pc = "unique_ready"
    /\ unique_out' = unique(parsed_attributes)
    /\ pc' = "unique_returned"
    /\ UNCHANGED << parsed_attributes, unique_again, exclusive, collection,
                    exclusive_out, namespace, attrs, parse_out, errors, pushed,
                    maybe_out, variants, identity, known_out,
                    unwrapped >>

UniqueRerun ==
    /\ pc = "unique_returned"
    /\ unique_again' = unique(parsed_attributes)
    /\ pc' = "unique_rerun"
    /\ UNCHANGED << parsed_attributes, unique_out, exclusive, collection,
                    exclusive_out, namespace, attrs, parse_out, errors, pushed,
                    maybe_out, variants, identity, known_out,
                    unwrapped >>

NextUnique == UniqueCall \/ UniqueRerun

SpecUnique == InitUnique /\ [][NextUnique]_vars

UniqueReturned == pc \in {"unique_returned", "unique_rerun"}

KindsOf(items) == { discriminant(items[i].value) : i \in DOMAIN items }

Occurrences(items, key) == { i \in DOMAIN items : discriminant(items[i].value) = key }

FirstIndex(items, key) ==
    CHOOSE i \in Occurrences(items, key) : \A j \in Occurrences(items, key) : i <= j

NoRepeat(items) == \A key \in KindsOf(items) : Cardinality(Occurrences(items, key)) = 1

\* C1: once unique has returned, the map holds, for each discriminant of the
\* input, the first item of that kind (value and span), and nothing else.
C1_FirstOccurrenceKept ==
    UniqueReturned =>
        /\ DOMAIN unique_out.ok = KindsOf(parsed_attributes)
        /\ \A key \in DOMAIN unique_out.ok :
              unique_out.ok[key] = parsed_attributes[FirstIndex(parsed_attributes, key)]

DuplicateMessage(key) ==
    "Duplicate attribute: " \o Tick \o KnownAttribute[key] \o Tick

PreviouslyMessage(key) ==
    "previously " \o Tick \o KnownAttribute[key] \o Tick \o " defined here"

\* The diagnostics C2 describes: for each item, in order, whose kind appeared
\* earlier, the Duplicate message at that item and then the previously message
\* at the first item of the kind.
RECURSIVE BackToFirst(_, _)
BackToFirst(items, i) ==
    IF i > Len(items) THEN << >>
    ELSE LET key == discriminant(items[i].value)
             first == FirstIndex(items, key)
         IN  (IF first < i
              THEN << [span |-> items[i].span, message |-> DuplicateMessage(key)],
                      [span |-> items[first].span, message |-> PreviouslyMessage(key)] >>
              ELSE << >>) \o BackToFirst(items, i + 1)

AsOption(messages) == IF messages = << >> THEN None ELSE Some(messages)

\* C2: the diagnostics of unique are, in item order, one pair per repeated
\* item: Duplicate at the repeat, then previously at the FIRST occurrence.
C2_PairsPointAtFirst ==
    UniqueReturned =>
        unique_out.maybe = AsOption(BackToFirst(parsed_attributes, 1))

\* C3: without a repeated discriminant the map has one entry per item, each
\* holding that item, there is no diagnostic, and a second run agrees.
C3_NoRepeatNoDiagnostic ==
    /\ (UniqueReturned /\ NoRepeat(parsed_attributes)) =>
          /\ DOMAIN unique_out.ok = KindsOf(parsed_attributes)
          /\ Cardinality(DOMAIN unique_out.ok) = Len(parsed_attributes)
          /\ \A i \in DOMAIN parsed_attributes :
                unique_out.ok[discriminant(parsed_attributes[i].value)]
                    = parsed_attributes[i]
          /\ unique_out.maybe = None
    /\ (pc = "unique_rerun" /\ unique_out.maybe = None) =>
          /\ unique_again = unique_out
          /\ unique_again.maybe = None

C3_Witness ==
    /\ pc = "unique_rerun"
    /\ NoRepeat(parsed_attributes)
    /\ Len(parsed_attributes) >= 2
    /\ unique_again.maybe = None

----------------------------------------------------------------------------
(* check_exclusive *)

HashSet_remove(set, value) == [set |-> set \ {value}, removed |-> value \in set]

\* The orders in which iterating a HashSet may yield its elements.
IterOrders(set) ==
    { order \in [1..Cardinality(set) -> set] : Range(order) = set }

\* check_exclusive pushing the Exclusive message to the back as well
check_exclusive_body_all_back(errs, item, excl, other_keys) ==
    IF discriminant(item.value) = excl
    THEN push_back(errs,
            Error_new(item.span,
                "Exclusive attribute. Remove either " \o Tick
                    \o Display(KnownAttribute, excl) \o Tick \o " or " \o other_keys))
    ELSE push_back(errs,
            Error_new(item.span,
                "cannot be used with " \o Tick \o Display(KnownAttribute, excl) \o Tick))

check_exclusive_body(errs, item, excl, other_keys) ==
    IF discriminant(item.value) = excl
    THEN push_front(errs,
            Error_new(item.span,
                "Exclusive attribute. Remove either " \o Tick
                    \o Display(KnownAttribute, excl) \o Tick \o " or " \o other_keys))
    ELSE push_back(errs,
            Error_new(item.span,
                "cannot be used with " \o Tick \o Display(KnownAttribute, excl) \o Tick))

RECURSIVE check_exclusive_loop(_, _, _, _)
check_exclusive_loop(errs, rest, excl, other_keys) ==
    IF rest = << >> THEN errs
    ELSE check_exclusive_loop(
            check_exclusive_body(errs, Head(rest), excl, other_keys),
            Tail(rest), excl, other_keys)

\* check_exclusive without the test that another key is left
check_exclusive_alone_too(excl, items, keys_iter) ==
    LET all == { discriminant(items[i].value) : i \in DOMAIN items }
        rem == HashSet_remove(all, excl)
    IN  IF rem.removed
        THEN LET other_keys ==
                    Join([i \in DOMAIN keys_iter |->
                            Tick \o Display(KnownAttribute, keys_iter[i]) \o Tick], ", ")
             IN OkMaybe(<< >>,
                    maybe(check_exclusive_loop(MaybeError_new, items, excl, other_keys)))
        ELSE OkMaybe(<< >>, maybe(MaybeError_new))

\* keys_iter: the order in which this run iterates the remaining keys.
check_exclusive(excl, items, keys_iter) ==
    LET all == { discriminant(items[i].value) : i \in DOMAIN items }
        rem == HashSet_remove(all, excl)
    IN  IF rem.removed /\ rem.set # {}
        THEN LET other_keys ==
                    Join([i \in DOMAIN keys_iter |->
                            Tick \o Display(KnownAttribute, keys_iter[i]) \o Tick], ", ")
             IN OkMaybe(<< >>,
                    maybe(check_exclusive_loop(MaybeError_new, items, excl, other_keys)))
        ELSE OkMaybe(<< >>, maybe(MaybeError_new))

InitExclusive ==
    /\ pc = "exclusive_ready"
    /\ exclusive \in Discriminants
    /\ collection \in SpannedSeqs
    /\ exclusive_out = Unset
    /\ parsed_attributes = Unset
    /\ unique_out = Unset
    /\ unique_again = Unset
    /\ namespace = Unset
    /\ attrs = Unset
    /\ parse_out = Unset
    /\ errors = Unset
    /\ pushed = Unset
    /\ maybe_out = Unset
    /\ unwrapped = Unset
    /\ variants = Unset
    /\ identity = Unset
    /\ known_out = Unset

ExclusiveCall ==
    /\ pc = "exclusive_ready"
    /\ \E keys_iter \in IterOrders(KindsOf(collection) \ {exclusive}) :
          exclusive_out' = check_exclusive(exclusive, collection, keys_iter)
    /\ pc' = "exclusive_returned"
    /\ UNCHANGED << parsed_attributes, unique_out, unique_again, exclusive,
                    collection, namespace, attrs, parse_out, errors, pushed,
                    maybe_out, variants, identity, known_out,
                    unwrapped >>

NextExclusive == ExclusiveCall

SpecExclusive == InitExclusive /\ [][NextExclusive]_vars

ExclusiveReturned == pc = "exclusive_returned"

OthersOf(items, excl) == { i \in DOMAIN items : discriminant(items[i].value) # excl }

\* C4: check_exclusive returns a diagnostic exactly when the sequence holds
\* an item of the exclusive kind and an item of another kind.
C4_ReportsIffMixed ==
    ExclusiveReturned =>
        ((exclusive_out.maybe # None) <=>
            (/\ Occurrences(collection, exclusive) # {}
             /\ OthersOf(collection, exclusive) # {}))

C4_Witness ==
    /\ ExclusiveReturned
    /\ Cardinality(Occurrences(collection, exclusive)) >= 2
    /\ OthersOf(collection, exclusive) = {}
    /\ exclusive_out.maybe = None

ExclusiveMessages(items, excl) ==
    { "Exclusive attribute. Remove either " \o Tick \o KnownAttribute[excl] \o Tick
        \o " or " \o Join([i \in DOMAIN order |->
                            Tick \o KnownAttribute[order[i]] \o Tick], ", ")
      : order \in IterOrders(KindsOf(items) \ {excl}) }

RECURSIVE CannotBeUsed(_, _, _)
CannotBeUsed(items, excl, i) ==
    IF i > Len(items) THEN << >>
    ELSE (IF discriminant(items[i].value) # excl
          THEN << [span |-> items[i].span,
                   message |-> "cannot be used with " \o Tick
                                    \o KnownAttribute[excl] \o Tick] >>
          ELSE << >>) \o CannotBeUsed(items, excl, i + 1)

\* C5: a report of check_exclusive is one Exclusive message per item of the
\* exclusive kind, each at that item, all ahead of the rest, followed by one
\* cannot-be-used message per other item, at that item, in sequence order;
\* so it has as many messages as the sequence has items.
C5_ReportShape ==
    (ExclusiveReturned /\ exclusive_out.maybe # None) =>
        LET report == exclusive_out.maybe[1]
            n == Cardinality(Occurrences(collection, exclusive))
        IN  /\ Len(report) = Len(collection)
            /\ \A k \in 1..n :
                  report[k].message \in ExclusiveMessages(collection, exclusive)
            /\ { report[k].span : k \in 1..n }
                  = { collection[i].span : i \in Occurrences(collection, exclusive) }
            /\ SubSeq(report, n + 1, Len(report)) = CannotBeUsed(collection, exclusive, 1)
            /\ (Len(collection) = 2 =>
                  /\ report[1].message \in ExclusiveMessages(collection, exclusive)
                  /\ report[2].message = "cannot be used with " \o Tick
                                            \o KnownAttribute[exclusive] \o Tick)

\* An item of another kind comes first, then two items of the exclusive kind.
C5_Witness ==
    /\ ExclusiveReturned
    /\ exclusive_out.maybe # None
    /\ Len(collection) = 3
    /\ discriminant(collection[1].value) # exclusive
    /\ discriminant(collection[2].value) = exclusive
    /\ discriminant(collection[3].value) = exclusive

----------------------------------------------------------------------------
(* parse_attrs *)

\* A syn::Attribute: the identifier of its path and the tokens of its body.
\* A token is what the item parser makes of it: Some(value), or None when
\* the item grammar rejects it.  Token j of block b sits at span <<b, j>>.
\* The attribute lists are those written with at most MaxSource symbols,
\* a symbol being the opening of a block or one token of a body.
Namespaces == { "macro_name", "Macro_name" }

TokenParses ==
    { Some([kind |-> k, payload |-> "Ruby version"]) : k \in {1, 2} } \cup { None }

Symbols ==
    [open : {TRUE}, path : Namespaces, parse : {None}]
        \cup [open : {FALSE}, path : {""}, parse : TokenParses]

Sources ==
    { src \in SeqsUpTo(Symbols, MaxSource) : src = << >> \/ src[1].open }

RECURSIVE AttrsOf(_, _)
AttrsOf(src, blocks) ==
    IF src = << >> THEN blocks
    ELSE LET sym == Head(src)
             b == Len(blocks)
         IN  IF sym.open
             THEN AttrsOf(Tail(src), Append(blocks, [path |-> sym.path, body |-> << >>]))
             ELSE AttrsOf(Tail(src),
                    [blocks EXCEPT ![b].body =
                        Append(@, [span |-> << b, Len(@) + 1 >>, parse |-> sym.parse])])

AttributeLists == { AttrsOf(src, << >>) : src \in Sources }

\* parse_attrs without the namespace filter
is_ident_any(path, ns) == TRUE

is_ident(path, ns) == path = ns

\* <WithSpan<T> as Parse>::parse on one token
WithSpan_parse(token) ==
    IF token.parse # None
    THEN [is_ok |-> TRUE, ok |-> WithSpan(token.parse[1], token.span)]
    ELSE [is_ok |-> FALSE, err |-> Error_new(token.span, "unexpected token")]

\* Punctuated::<T, Token![,]>::parse_terminated over the body of a block
RECURSIVE parse_terminated(_, _)
parse_terminated(tokens, parsed) ==
    IF tokens = << >> THEN [is_ok |-> TRUE, ok |-> parsed]
    ELSE LET item == WithSpan_parse(Head(tokens))
         IN  IF item.is_ok
             THEN parse_terminated(Tail(tokens), Append(parsed, item.ok))
             ELSE [is_ok |-> FALSE, err |-> item.err]

parse_args_with(attr) == parse_terminated(attr.body, << >>)

parse_attrs_body(st, attr) ==
    LET res == parse_args_with(attr)
    IN  IF res.is_ok
        THEN [attributes |-> st.attributes \o res.ok, errors |-> st.errors]
        ELSE [attributes |-> st.attributes, errors |-> push_back(st.errors, res.err)]

\* parse_attrs leaving its loop at the first block that fails to parse
RECURSIVE parse_attrs_loop_stopping(_, _, _)
parse_attrs_loop_stopping(st, ns, rest) ==
    IF rest = << >> THEN st
    ELSE IF is_ident(Head(rest).path, ns)
         THEN IF parse_args_with(Head(rest)).is_ok
              THEN parse_attrs_loop_stopping(parse_attrs_body(st, Head(rest)), ns, Tail(rest))
              ELSE parse_attrs_body(st, Head(rest))
         ELSE parse_attrs_loop_stopping(st, ns, Tail(rest))

RECURSIVE parse_attrs_loop(_, _, _)
parse_attrs_loop(st, ns, rest) ==
    IF rest = << >> THEN st
    ELSE IF is_ident(Head(rest).path, ns)
         THEN parse_attrs_loop(parse_attrs_body(st, Head(rest)), ns, Tail(rest))
         ELSE parse_attrs_loop(st, ns, Tail(rest))

parse_attrs(ns, attributes) ==
    LET st == parse_attrs_loop([attributes |-> << >>, errors |-> MaybeError_new],
                               ns, attributes)
    IN  OkMaybe(st.attributes, maybe(st.errors))

InitParse ==
    /\ pc = "parse_ready"
    /\ namespace \in Namespaces
    /\ attrs \in AttributeLists
    /\ parse_out = Unset
    /\ parsed_attributes = Unset
    /\ unique_out = Unset
    /\ unique_again = Unset
    /\ exclusive = Unset
    /\ collection = Unset
    /\ exclusive_out = Unset
    /\ errors = Unset
    /\ pushed = Unset
    /\ maybe_out = Unset
    /\ unwrapped = Unset
    /\ variants = Unset
    /\ identity = Unset
    /\ known_out = Unset

ParseCall ==
    /\ pc = "parse_ready"
    /\ parse_out' = parse_attrs(namespace, attrs)
    /\ pc' = "parse_returned"
    /\ UNCHANGED << parsed_attributes, unique_out, unique_again, exclusive,
                    collection, exclusive_out, namespace, attrs, errors, pushed,
                    maybe_out, variants, identity, known_out,
                    unwrapped >>

NextParse == ParseCall

SpecParse == InitParse /\ [][NextParse]_vars

ParseReturned == pc = "parse_returned"

Matching(blocks, ns) == { b \in DOMAIN blocks : blocks[b].path = ns }

WellFormed(block) == \A j \in DOMAIN block.body : block.body[j].parse # None

\* span s comes strictly before span t in the source
Before(s, t) == s[1] < t[1] \/ (s[1] = t[1] /\ s[2] < t[2])

\* C6: the vector of parse_attrs holds exactly the items of the blocks of
\* namespace N, in block order and then within-block order, none twice;
\* blocks of another namespace give no item and no diagnostic.
C6_ItemsOfNamespaceInOrder ==
    ParseReturned =>
        LET out == parse_out.ok
            good == { b \in Matching(attrs, namespace) : WellFormed(attrs[b]) }
        IN  /\ \A k \in DOMAIN out :
                  /\ out[k].span[1] \in good
                  /\ out[k].span[2] \in DOMAIN attrs[out[k].span[1]].body
                  /\ Some(out[k].value)
                        = attrs[out[k].span[1]].body[out[k].span[2]].parse
            /\ \A b \in good : \A j \in DOMAIN attrs[b].body :
                  \E k \in DOMAIN out : out[k].span = << b, j >>
            /\ \A k \in DOMAIN out : \A l \in DOMAIN out :
                  k < l => Before(out[k].span, out[l].span)
            /\ (parse_out.maybe # None =>
                  \A m \in DOMAIN parse_out.maybe[1] :
                      parse_out.maybe[1][m].span[1] \in Matching(attrs, namespace))

\* Two blocks of the namespace, each with items, and a block of another one.
C6_Witness ==
    /\ ParseReturned
    /\ Len(parse_out.ok) >= 2
    /\ \E b \in DOMAIN attrs : b \notin Matching(attrs, namespace) /\ attrs[b].body # << >>
    /\ \E k \in DOMAIN parse_out.ok : \E l \in DOMAIN parse_out.ok :
          parse_out.ok[k].span[1] # parse_out.ok[l].span[1]

\* C7: a block of the namespace whose body fails to parse gives a diagnostic
\* and no item at all, later blocks still give all their items, the
\* diagnostics come in block order, and the diagnostic is None exactly when
\* no block of the namespace failed.
C7_FailedBlockSkippedScanContinues ==
    ParseReturned =>
        LET out == parse_out.ok
            failed == { b \in Matching(attrs, namespace) : ~WellFormed(attrs[b]) }
        IN  /\ (parse_out.maybe = None) <=> (failed = {})
            /\ \A k \in DOMAIN out : out[k].span[1] \notin failed
            /\ \A b \in Matching(attrs, namespace) \ failed :
                  \A j \in DOMAIN attrs[b].body :
                      \E k \in DOMAIN out :
                          out[k] = WithSpan(attrs[b].body[j].parse[1], << b, j >>)
            /\ (parse_out.maybe # None =>
                  LET diags == parse_out.maybe[1]
                  IN  /\ { diags[m].span[1] : m \in DOMAIN diags } = failed
                      /\ \A m \in DOMAIN diags : \A n \in DOMAIN diags :
                            m < n => diags[m].span[1] < diags[n].span[1])

\* A failing block that starts with a well-formed item, then a good block.
C7_Witness ==
    /\ ParseReturned
    /\ parse_out.maybe # None
    /\ \E b \in Matching(attrs, namespace) : \E c \in Matching(attrs, namespace) :
          /\ b < c
          /\ ~WellFormed(attrs[b])
          /\ Len(attrs[b].body) >= 2
          /\ attrs[b].body[1].parse # None
          /\ WellFormed(attrs[c])
          /\ attrs[c].body # << >>

----------------------------------------------------------------------------
(* A caller making calls on one MaybeError *)

\* The syn::Error handed over by call n: k messages, the i-th at span
\* <<n, off + i>>, so that every diagnostic of a run can be told apart.
MadeError(n, off, k) ==
    [i \in 1..k |-> [span |-> << n, off + i >>, message |-> "unexpected token"]]

\* The iterator handed to extend by call n: one error per entry of lens,
\* the j-th with lens[j] messages.
RECURSIVE MadeIter(_, _, _)
MadeIter(n, off, lens) ==
    IF lens = << >> THEN << >>
    ELSE << MadeError(n, off, Head(lens)) >>
            \o MadeIter(n, off + Head(lens), Tail(lens))

RECURSIVE Sum(_)
Sum(lens) == IF lens = << >> THEN 0 ELSE Head(lens) + Sum(Tail(lens))

\* Iterators of at most MaxCombined messages in all.
IterShapes ==
    { lens \in SeqsUpTo(1..MaxCombined, MaxCombined) : Sum(lens) <= MaxCombined }

InitMaybeError ==
    /\ pc = "accumulating"
    /\ errors = MaybeError_new
    /\ pushed = << >>
    /\ maybe_out = Unset
    /\ unwrapped = Unset
    /\ parsed_attributes = Unset
    /\ unique_out = Unset
    /\ unique_again = Unset
    /\ exclusive = Unset
    /\ collection = Unset
    /\ exclusive_out = Unset
    /\ namespace = Unset
    /\ attrs = Unset
    /\ parse_out = Unset
    /\ variants = Unset
    /\ identity = Unset
    /\ known_out = Unset

PushBack ==
    /\ pc = "accumulating"
    /\ Len(pushed) < MaxCalls
    /\ \E k \in 1..MaxCombined :
          LET error == MadeError(Len(pushed) + 1, 0, k)
          IN  /\ errors' = push_back(errors, error)
              /\ pushed' = Append(pushed, [op |-> "push_back", arg |-> << error >>])
    /\ UNCHANGED << pc, maybe_out, parsed_attributes, unique_out, unique_again,
                    exclusive, collection, exclusive_out, namespace, attrs,
                    parse_out, variants, identity, known_out,
                    unwrapped >>

PushFront ==
    /\ pc = "accumulating"
    /\ Len(pushed) < MaxCalls
    /\ \E k \in 1..MaxCombined :
          LET error == MadeError(Len(pushed) + 1, 0, k)
          IN  /\ errors' = push_front(errors, error)
              /\ pushed' = Append(pushed, [op |-> "push_front", arg |-> << error >>])
    /\ UNCHANGED << pc, maybe_out, parsed_attributes, unique_out, unique_again,
                    exclusive, collection, exclusive_out, namespace, attrs,
                    parse_out, variants, identity, known_out,
                    unwrapped >>

Extend ==
    /\ pc = "accumulating"
    /\ Len(pushed) < MaxCalls
    /\ \E lens \in IterShapes :
          LET iter == MadeIter(Len(pushed) + 1, 0, lens)
          IN  /\ errors' = extend(errors, iter)
              /\ pushed' = Append(pushed, [op |-> "extend", arg |-> iter])
    /\ UNCHANGED << pc, maybe_out, parsed_attributes, unique_out, unique_again,
                    exclusive, collection, exclusive_out, namespace, attrs,
                    parse_out, variants, identity, known_out,
                    unwrapped >>

Maybe ==
    /\ pc = "accumulating"
    /\ maybe_out' = maybe(errors)
    /\ pc' = "drained"
    /\ UNCHANGED << errors, pushed, parsed_attributes, unique_out, unique_again,
                    exclusive, collection, exclusive_out, namespace, attrs,
                    parse_out, variants, identity, known_out,
                    unwrapped >>

NextMaybeError == PushBack \/ PushFront \/ Extend \/ Maybe

SpecMaybeError == InitMaybeError /\ [][NextMaybeError]_vars

RECURSIVE Flatten(_)
Flatten(seqs) == IF seqs = << >> THEN << >> ELSE Head(seqs) \o Flatten(Tail(seqs))

\* The diagnostics the calls of a history put in front, latest call first.
RECURSIVE FrontOf(_)
FrontOf(calls) ==
    IF calls = << >> THEN << >>
    ELSE LET last == calls[Len(calls)]
             before == SubSeq(calls, 1, Len(calls) - 1)
         IN  (IF last.op = "push_front" THEN Flatten(last.arg) ELSE << >>)
                \o FrontOf(before)

\* The diagnostics the calls of a history put at the back, earliest call first.
RECURSIVE BackOf(_)
BackOf(calls) ==
    IF calls = << >> THEN << >>
    ELSE (IF Head(calls).op # "push_front" THEN Flatten(Head(calls).arg) ELSE << >>)
            \o BackOf(Tail(calls))

Queued(calls) == FrontOf(calls) \o BackOf(calls)

\* C8: the queue holds every pushed diagnostic once, those of push_front
\* ahead (latest first) and those of push_back and extend behind in call
\* order; has_err tells whether anything was pushed; maybe() is None for an
\* empty accumulator and otherwise combines the queue in queue order.
C8_NothingLostNorReordered ==
    /\ pc \in {"accumulating", "drained"} =>
          /\ Flatten(errors) = Queued(pushed)
          /\ has_err(errors) <=> (\E n \in DOMAIN pushed : pushed[n].arg # << >>)
    /\ pc = "drained" =>
          /\ (maybe_out = None) <=> (errors = << >>)
          /\ (maybe_out # None => maybe_out[1] = Queued(pushed))

\* Drained after a push_back, a later push_front of a combined error and an
\* extend.
C8_Witness ==
    /\ pc = "drained"
    /\ maybe_out # None
    /\ \E a \in DOMAIN pushed : \E b \in DOMAIN pushed : \E c \in DOMAIN pushed :
          /\ a < b
          /\ pushed[a].op = "push_back"
          /\ pushed[b].op = "push_front" /\ Len(pushed[b].arg[1]) >= 2
          /\ pushed[c].op = "extend" /\ Len(pushed[c].arg) >= 2

----------------------------------------------------------------------------
(* known_attribute *)

\* T::iter(): the discriminants of T in declaration order
iter(T) == [k \in 1..Len(T) |-> k]

Lower(name_str) ==
    CASE name_str = "Rename" -> "rename"
      [] name_str = "IGNORE" -> "ignore"
      [] OTHER -> name_str

\* from_str matching without regard to case
from_str_ignore_case(T, name_str) ==
    IF \E k \in DOMAIN T : T[k] = Lower(name_str)
    THEN [is_ok |-> TRUE, ok |-> CHOOSE k \in DOMAIN T : T[k] = Lower(name_str)]
    ELSE [is_ok |-> FALSE, err |-> "VariantNotFound"]

\* T::from_str as strum::EnumString derives it: the variant of that very name
from_str(T, name_str) ==
    IF \E k \in DOMAIN T : T[k] = name_str
    THEN [is_ok |-> TRUE, ok |-> CHOOSE k \in DOMAIN T : T[k] = name_str]
    ELSE [is_ok |-> FALSE, err |-> "VariantNotFound"]

known_attribute(T, ident) ==
    LET name_str == ident.name
        parsed == from_str(T, name_str)
    IN  IF parsed.is_ok THEN parsed
        ELSE [is_ok |-> FALSE,
              err |-> Error_new(ident.span,
                        "Unknown attribute: " \o Tick \o ident.name \o Tick
                            \o ". Must be one of "
                            \o Join([i \in DOMAIN iter(T) |->
                                        Tick \o Display(T, iter(T)[i]) \o Tick], ", "))]

\* Enumerations: the first NumKinds variant names, any number of them
\* declared in any order.
Enumerations ==
    { T \in SeqsUpTo(Range(KnownAttribute), NumKinds) :
        \A i \in DOMAIN T : \A j \in DOMAIN T : i # j => T[i] # T[j] }

IdentNames == Range(KnownAttribute) \cup { "Rename", "IGNORE", "unknown" }

Idents == [name : IdentNames, span : 1..MaxItems]

InitKnown ==
    /\ pc = "known_ready"
    /\ variants \in Enumerations
    /\ identity \in Idents
    /\ known_out = Unset
    /\ parsed_attributes = Unset
    /\ unique_out = Unset
    /\ unique_again = Unset
    /\ exclusive = Unset
    /\ collection = Unset
    /\ exclusive_out = Unset
    /\ namespace = Unset
    /\ attrs = Unset
    /\ parse_out = Unset
    /\ errors = Unset
    /\ pushed = Unset
    /\ maybe_out = Unset
    /\ unwrapped = Unset

KnownCall ==
    /\ pc = "known_ready"
    /\ known_out' = known_attribute(variants, identity)
    /\ pc' = "known_returned"
    /\ UNCHANGED << parsed_attributes, unique_out, unique_again, exclusive,
                    collection, exclusive_out, namespace, attrs, parse_out,
                    errors, pushed, maybe_out, variants, identity,
                    unwrapped >>

NextKnown == KnownCall

SpecKnown == InitKnown /\ [][NextKnown]_vars

KnownReturned == pc = "known_returned"

\* The names of the first n variants, each between Ticks, separated by ", ".
RECURSIVE ListedUpTo(_, _)
ListedUpTo(T, n) ==
    IF n = 0 THEN ""
    ELSE ListedUpTo(T, n - 1) \o (IF n > 1 THEN ", " ELSE "") \o Tick \o T[n] \o Tick

\* C10: known_attribute returns the kind whose display name is exactly the
\* identifier; for any other identifier it returns one error, at the
\* identifier, naming it and listing every kind name once in declaration order.
C10_ExactNameOrListedError ==
    KnownReturned =>
        /\ \A k \in DOMAIN variants :
              variants[k] = identity.name =>
                  (known_out.is_ok /\ known_out.ok = k)
        /\ (\A k \in DOMAIN variants : variants[k] # identity.name) =>
              /\ ~known_out.is_ok
              /\ Len(known_out.err) = 1
              /\ known_out.err[1].span = identity.span
              /\ known_out.err[1].message
                    = "Unknown attribute: " \o Tick \o identity.name \o Tick
                        \o ". Must be one of " \o ListedUpTo(variants, Len(variants))

\* An identifier that differs from a declared name by case only is refused,
\* with three kinds declared out of the order of VariantNames.
C10_Witness ==
    /\ KnownReturned
    /\ identity.name = "Rename"
    /\ variants = << "ignore", "skip", "rename" >>
    /\ ~known_out.is_ok

----------------------------------------------------------------------------
(* A derive macro folding the three stages into one accumulator:           *)
(*   let mut errors = MaybeError::new();                                   *)
(*   let attributes = parse_attrs(&NS, &attrs).push_unwrap(&mut errors);   *)
(*   unique(attributes).push_unwrap(&mut errors);                          *)
(*   check_exclusive(exclusive, &attributes).push_unwrap(&mut errors);     *)
(*   errors.maybe()                                                        *)
(* with the two checks in either order.                                    *)

Init ==
    /\ pc = "pipeline_start"
    /\ namespace = "macro_name"
    /\ attrs \in { a \in AttributeLists : \A b \in DOMAIN a : a[b].path = "macro_name" }
    /\ exclusive \in {1, 2}
    /\ errors = MaybeError_new
    /\ pushed = << >>
    /\ unwrapped = << >>
    /\ parse_out = Unset
    /\ parsed_attributes = Unset
    /\ unique_out = Unset
    /\ exclusive_out = Unset
    /\ maybe_out = Unset
    /\ unique_again = Unset
    /\ collection = Unset
    /\ variants = Unset
    /\ identity = Unset
    /\ known_out = Unset

FoldParse ==
    /\ pc = "pipeline_start"
    /\ LET result == parse_attrs(namespace, attrs)
           folded == push_unwrap(result, errors)
       IN  /\ parse_out' = result
           /\ parsed_attributes' = folded.ok
           /\ errors' = folded.push_to
           /\ pushed' = Append(pushed, result)
           /\ unwrapped' = Append(unwrapped, folded.ok)
    /\ pc' = "parsed"
    /\ UNCHANGED << unique_out, unique_again, exclusive, collection,
                    exclusive_out, namespace, attrs, maybe_out, variants,
                    identity, known_out >>

FoldUnique ==
    /\ pc \in {"parsed", "parsed_exclusive"}
    /\ LET result == unique(parsed_attributes)
           folded == push_unwrap(result, errors)
       IN  /\ unique_out' = result
           /\ errors' = folded.push_to
           /\ pushed' = Append(pushed, result)
           /\ unwrapped' = Append(unwrapped, folded.ok)
    /\ pc' = IF pc = "parsed" THEN "parsed_unique" ELSE "checked"
    /\ UNCHANGED << parsed_attributes, unique_again, exclusive, collection,
                    exclusive_out, namespace, attrs, parse_out, maybe_out,
                    variants, identity, known_out >>

FoldExclusive ==
    /\ pc \in {"parsed", "parsed_unique"}
    /\ \E keys_iter \in IterOrders(KindsOf(parsed_attributes) \ {exclusive}) :
          LET result == check_exclusive(exclusive, parsed_attributes, keys_iter)
              folded == push_unwrap(result, errors)
          IN  /\ exclusive_out' = result
              /\ errors' = folded.push_to
              /\ pushed' = Append(pushed, result)
              /\ unwrapped' = Append(unwrapped, folded.ok)
    /\ pc' = IF pc = "parsed" THEN "parsed_exclusive" ELSE "checked"
    /\ UNCHANGED << parsed_attributes, unique_out, unique_again, exclusive,
                    collection, namespace, attrs, parse_out, maybe_out,
                    variants, identity, known_out >>

Drain ==
    /\ pc = "checked"
    /\ maybe_out' = maybe(errors)
    /\ pc' = "pipeline_drained"
    /\ UNCHANGED << parsed_attributes, unique_out, unique_again, exclusive,
                    collection, exclusive_out, namespace, attrs, parse_out,
                    errors, pushed, unwrapped, variants, identity, known_out >>

Next == FoldParse \/ FoldUnique \/ FoldExclusive \/ Drain

Spec == Init /\ [][Next]_vars

\* The sub-diagnostics of the results folded so far, in the order folded.
RECURSIVE DiagnosticsOf(_)
DiagnosticsOf(results) ==
    IF results = << >> THEN << >>
    ELSE (IF Head(results).maybe = None THEN << >> ELSE Head(results).maybe[1])
            \o DiagnosticsOf(Tail(results))

\* C9: push_unwrap returns the value of the OkMaybe as it is and appends the
\* sub-diagnostics of its diagnostic, one by one and in order, behind what
\* the accumulator holds (nothing when the diagnostic is None); so after
\* folding the stages the accumulator holds every diagnostic of every stage
\* in stage order.
C9_FoldKeepsValueAndEveryDiagnostic ==
    /\ pc \in {"parsed", "parsed_unique", "parsed_exclusive", "checked",
               "pipeline_drained"} =>
          /\ Len(unwrapped) = Len(pushed)
          /\ \A n \in DOMAIN pushed : unwrapped[n] = pushed[n].ok
          /\ \A m \in DOMAIN errors : Len(errors[m]) = 1
          /\ Flatten(errors) = DiagnosticsOf(pushed)
          /\ parsed_attributes = parse_out.ok
    /\ pc = "pipeline_drained" =>
          maybe_out = AsOption(DiagnosticsOf(pushed))

\* All three stages report, parse_attrs with a combined diagnostic, and the
\* vector they work on is not empty.
C9_Witness ==
    /\ pc = "pipeline_drained"
    /\ parse_out.maybe # None
    /\ unique_out.maybe # None
    /\ exclusive_out.maybe # None
    /\ Len(maybe_out[1]) >= 6

====
